---- MODULE Spec2Model ----
(***************************************************************************)
(* The speech-capture lifecycle of MedConscious: the hook                  *)
(* useSpeechRecognition (src/src/hooks/useSpeechRecognition.ts).  The file *)
(* holds three versions of the hook, one after the other:                  *)
(*   "v1"  lines   1-424  expo listeners per start, browser fallback,      *)
(*                        MediaRecorder byte capture;                      *)
(*   "v2"  lines 426-786  speechMethod chosen by initializeSpeech-         *)
(*                        Recognition: expo / web / simulation;            *)
(*   "v3"  lines 788-956  simulation only.                                 *)
(* A behaviour runs one version, fixed in Init.  JavaScript is single      *)
(* threaded: an action is one run-to-completion step of a handler, from    *)
(* its entry or from the await it was suspended at to the next await that  *)
(* really suspends (import(), getUserMedia, the native module's start and  *)
(* stop, setTimeout).  The platform (browser recognizer, native module,    *)
(* timers) is the environment: its events are separate actions.            *)
(***************************************************************************)
EXTENDS Integers, Sequences, FiniteSets, Bags, TLC

\* ------------------------------------------------------------------ bounds
\* Calls of startListening / stopListening made by the hook's user: on a
\* platform with a recognizer, and on one where only the simulation runs
\* (its behaviours are short, and its races need more calls).
MaxCalls == 2
MaxSimCalls == 5
\* --------------------------------------------------------------- constants
Versions == {"v1", "v2", "v3"}

\* onError messages, as the source spells them.
ErrNotGranted == "Microphone permission not granted"
ErrPermissionRequired == "Microphone permission is required for voice recording"
ErrStartRecording == "Failed to start voice recording"
ErrStartRecognition == "Failed to start speech recognition"
ErrWebStart == "Failed to start speech recognition. Please try again."
ErrUnsupported ==
    "Speech recognition is not supported. Please use a device with speech recognition capabilities or try the web version in Chrome/Safari."
ErrNoSpeech == "No speech detected. Please try again."
ErrNetwork == "Network error. Please check your connection and try again."
ErrNotAllowed ==
    "Microphone permission denied. Please allow microphone access and try again."
ErrRecognitionFailed == "Speech recognition failed: "

\* The error code a recognizer reports here.
ErrorCodes == {"no-speech"}

\* The transcript shown while the simulation is pending (line 622).  Its
\* first character is the microphone emoji U+1F3A4, written here as the
\* JavaScript escape of its two UTF-16 code units.
ListeningNote == "\\ud83c\\udfa4 Listening... (simulation mode)"

\* Candidate phrases of the simulated provider: the list of lines 628-635
\* (v2), and the list of lines 893-909 (v3), which holds the same six as
\* its entries 6 to 10 and 13.
simulatedResponses ==
    {"I have a headache, what should I do?",
     "What are the symptoms of flu?",
     "How can I improve my sleep?",
     "What foods are good for heart health?",
     "I feel stressed, any advice?",
     "How much water should I drink daily?"}
mockTranscripts ==
    simulatedResponses \cup
        {"Hello, how are you?",
         "What's the weather like today?",
         "Set a timer for 5 minutes",
         "Tell me a joke",
         "How can I help you?",
         "Can you recommend some exercises?",
         "What vitamins should I take?",
         "What are healthy breakfast options?",
         "How can I reduce anxiety naturally?"}

\* Texts a real recognizer hands over: empty, or words with white space
\* around them.
Utterances == {"", " hello "}

\* String.prototype.trim on those texts.
Trim(t) == IF t = " hello " THEN "hello" ELSE t

\* Confidences, in hundredths: the one the simulation reports (lines 650,
\* 917), the one the browser and v1's native handlers fall back on (lines
\* 183, 273, 594), and the one a recognizer reports itself.
SimConfidence == 95
DefaultConfidence == 90
HeardConfidence == 80

\* "c || d" on a confidence: 0 stands for one that is absent (or zero).
OrElse(c, d) == IF c = 0 THEN d ELSE c

VARIABLES
    version,        \* which version of the hook runs
    continuous,     \* the hook's `continuous` prop
    env,            \* the platform: [expo, web, mic]
    seen,           \* hasPermission / speechMethod as the closures of the
                    \* last render see them
    ncalls,         \* user calls made so far
    last,           \* the step just taken: [ret, err, res, late, text,
                    \* conf, interim]: the call that returned in it ("-"
                    \* when none), its last onError message ("" when none),
                    \* the session onResult was called for (0 when none),
                    \* whether a stopListening had taken effect on that
                    \* session before the step, the transcript and the
                    \* confidence onResult was given, and whether the event
                    \* that led to onResult was an interim result
    delivered,      \* onResult calls made so far: "none", "one", "many"
    hasPermission,  \* useState: "null" | "true" | "false"
    speechMethod,   \* useState (v2): "expo" | "web" | "simulation"
    isListening,    \* useState
    isRecordingRef, \* useRef
    transcript,     \* useState
    timeoutRef,     \* useRef: 0 (null) or a timer id
    recognitionRef, \* useRef: 0 (null) or a recognition instance id
    mediaRecorderRef,          \* useRef (v1): "null" | "recording"
    expoSpeechRecognitionRef,  \* useRef (v2): set or not
    expoListeners,  \* listener sets registered with the native module
    sessions,       \* every timer / recognition ever created, by id
    calls,          \* async calls suspended at an await (a bag)
    seenListening,  \* isListening as the closure of toggle sees it; only
                    \* toggle reads it, so only ToggleSpec keeps track of it
    mounted,        \* the component is mounted: its effect's cleanup has
                    \* not run
    screen,         \* VoiceScreen: which of its two versions is mounted
                    \* ("none": the hook is used on its own), its
                    \* recordingStatus, the route shown, the store's flag
    messages,       \* the chat store's messages
    replies         \* the transcripts whose reply timer is pending

vars == <<version, continuous, env, seen, ncalls, last, delivered, hasPermission,
          speechMethod, isListening, isRecordingRef, transcript, timeoutRef,
          recognitionRef, mediaRecorderRef, expoSpeechRecognitionRef,
          expoListeners, sessions, calls, seenListening, mounted, screen,
          messages, replies>>

\* The hook's variables and the screen's.
hookVars ==
    <<version, continuous, env, seen, ncalls, last, delivered, hasPermission,
      speechMethod, isListening, isRecordingRef, transcript, timeoutRef,
      recognitionRef, mediaRecorderRef, expoSpeechRecognitionRef,
      expoListeners, sessions, calls, seenListening, mounted>>
screenVars == <<screen, messages, replies>>

\* ------------------------------------------------------------ the platform
\* A session is one timer (kind "sim") or one recognition (kind "web": a
\* SpeechRecognition object; kind "expo": one start of the native module).
\*   sim : "pending" -> "off" (fired or cleared)
\*   web, expo : "starting" (start called), "active" (start event
\*         delivered), "stopping" (stop called: a last result may still
\*         come), "ending" (error reported, end to come), "off" (ended, or
\*         start threw)
\* While a session can still deliver events, n counts the onResult calls
\* made for it and stopped tells whether a stopListening took effect while
\* it was live; a session that is ending or off delivers no result any more
\* and keeps neither.  Calls are counted as none, one, many: a recognizer
\* may deliver any number of results.
Inc(n) == IF n = "none" THEN "one" ELSE "many"
NewSession(kind, st) ==
    [kind |-> kind, st |-> st, n |-> "none", stopped |-> FALSE]
Off(h, id) == [h EXCEPT !.sessions[id] = NewSession(@.kind, "off")]
Ending(h, id) == [h EXCEPT !.sessions[id] = NewSession(@.kind, "ending")]

LiveStates == {"pending", "starting", "active"}
Live(ss) == {i \in DOMAIN ss : ss[i].st \in LiveStates}

\* ------------------------------------------------- the screen's handlers
\* The handlers of src/screens/VoiceScreen.tsx, which the hook calls back:
\* s1 is the screen of lines 17-271, s2 the one of lines 288-460.
Screens == {"s1", "s2"}

StatusIdle == "Tap to speak"
StatusError == "Error occurred. Tap to try again."

\* The transcripts handed to the screen: a phrase of the simulation, or
\* words a recognizer heard.
Heard == {"I have a headache, what should I do?", "hello"}

\* createMessage and generateAIResponse come from modules that are not
\* part of these sources: a message is its text and its sender (its
\* timestamp is left out), the reply is some text made from the transcript.
createMessage(text, sender) == [text |-> text, sender |-> sender]
generateAIResponse(t) == "Reply to: " \o t

\* The screen's state and the store's as one record, and its commit.
Sc ==
    [v |-> screen.v, status |-> screen.status, route |-> screen.route,
     isRecording |-> screen.isRecording, messages |-> messages,
     replies |-> replies]

CommitScreen(sc) ==
    /\ screen' = [v |-> sc.v, status |-> sc.status, route |-> sc.route,
                  isRecording |-> sc.isRecording]
    /\ messages' = sc.messages
    /\ replies' = sc.replies

\* The onError the screen gives the hook, lines 29-33 and 299-303.
screenError(sc) == [sc EXCEPT !.status = StatusError, !.isRecording = FALSE]

\* A handleVoiceResult that appends the reply at once instead of setting
\* a timer: C20 does not survive it.
handleVoiceResult_eager(sc, t) ==
    [sc EXCEPT !.messages =
                   @ \o <<createMessage(t, "user"),
                          createMessage(generateAIResponse(t), "ai")>>,
               !.route = "Chat"]

\* handleVoiceResult, lines 35-62 and 304-318, up to its return: the user
\* message is dispatched, the chat is shown, the reply timer is set.  s1
\* sets recordingStatus to "Processing..." first and to "Tap to speak"
\* last.
handleVoiceResult(sc, t) ==
    LET sc1 == [sc EXCEPT !.messages = Append(@, createMessage(t, "user")),
                          !.route = "Chat",
                          !.replies = Append(@, t)]
    IN IF sc.v = "s1" THEN [sc1 EXCEPT !.status = StatusIdle] ELSE sc1

\* A reply callback that answers the newest transcript instead of the one
\* its timer was set for: C31 does not survive it.
replyCallback_newest(sc) ==
    [sc EXCEPT !.messages =
                   Append(@, createMessage(
                                 generateAIResponse(sc.replies[Len(sc.replies)]),
                                 "ai")),
               !.replies = SubSeq(@, 1, Len(@) - 1)]

\* The callback of the reply timer, lines 46-49 and 313-317: the reply to
\* the transcript the timer was set for is dispatched.
replyCallback(sc) ==
    [sc EXCEPT !.messages =
                   Append(@, createMessage(generateAIResponse(Head(sc.replies)),
                                           "ai")),
               !.replies = Tail(@)]

\* handleMicPress, lines 64-82 and 320-329, up to its call of toggle:
\* listening and permission are the isListening and hasPermission of the
\* render that made the handler.  Only s1 returns before toggle, where the
\* permission is false (lines 74-77).
StatusProcessing == "Processing..."
StatusDenied == "Microphone permission required"
StatusListening(v) == IF v = "s1" THEN "Listening... Speak now" ELSE "Listening..."

micBlocked(sc, listening, permission) ==
    sc.v = "s1" /\ ~listening /\ permission = "false"

handleMicPress(sc, listening, permission) ==
    IF listening
    THEN [sc EXCEPT !.status = IF sc.v = "s1" THEN StatusProcessing
                                ELSE StatusIdle,
                    !.isRecording = FALSE]
    ELSE IF micBlocked(sc, listening, permission)
    THEN [sc EXCEPT !.status = StatusDenied]
    ELSE [sc EXCEPT !.status = StatusListening(sc.v), !.isRecording = TRUE]

\* A suggestion that adds the message without scheduling a reply: C27 does
\* not survive it.
suggestionPress_silent(sc, t) ==
    [handleVoiceResult(sc, t) EXCEPT !.replies = sc.replies]

\* The suggestions a screen renders: lines 84-91 (s1) and 331-335 (s2).
suggestions(v) ==
    IF v = "s1"
    THEN {"I have a headache, what should I do?",
          "What are the symptoms of flu?",
          "How can I improve my sleep?",
          "What foods are good for heart health?",
          "I feel stressed, any advice?",
          "How much water should I drink daily?"}
    ELSE {"What's the weather like?",
          "Set a timer for 5 minutes",
          "Tell me a joke"}

\* The onPress of a suggestion, lines 153 and 393.
suggestionPress(sc, t) == handleVoiceResult(sc, t)

\* The onPress of the settings button, lines 104 and 348.
settingsPress(sc) == [sc EXCEPT !.route = "Settings"]

\* The hook's mutable state as one record, so that a handler's statements
\* compose in program order.  err, res and late are what the step leaves in
\* `last`.
Cur ==
    [hasPermission |-> hasPermission, speechMethod |-> speechMethod,
     isListening |-> isListening, isRecordingRef |-> isRecordingRef,
     transcript |-> transcript, timeoutRef |-> timeoutRef,
     recognitionRef |-> recognitionRef, mediaRecorderRef |-> mediaRecorderRef,
     expoRef |-> expoSpeechRecognitionRef, expoListeners |-> expoListeners,
     sessions |-> sessions, calls |-> calls, delivered |-> delivered,
     err |-> "", res |-> 0, late |-> FALSE, text |-> "", conf |-> 0,
     interim |-> FALSE, cb |-> <<>>]

\* `last` after a step in which nothing was called back.
Quiet(act) ==
    [ret |-> act, err |-> "", res |-> 0, late |-> FALSE, text |-> "",
     conf |-> 0, interim |-> FALSE]

CommitState(h, act) ==
    /\ hasPermission' = h.hasPermission
    /\ speechMethod' = h.speechMethod
    /\ isListening' = h.isListening
    /\ isRecordingRef' = h.isRecordingRef
    /\ transcript' = h.transcript
    /\ timeoutRef' = h.timeoutRef
    /\ recognitionRef' = h.recognitionRef
    /\ mediaRecorderRef' = h.mediaRecorderRef
    /\ expoSpeechRecognitionRef' = h.expoRef
    /\ expoListeners' = h.expoListeners
    /\ sessions' = h.sessions
    /\ calls' = h.calls
    /\ delivered' = h.delivered
    /\ last' = [ret |-> act, err |-> h.err, res |-> h.res, late |-> h.late,
                text |-> h.text, conf |-> h.conf,
                interim |-> h.res # 0 /\ h.interim]
    /\ UNCHANGED <<version, continuous, env, seenListening>>

\* A step of the mounted hook.
CommitHook(h, act) == CommitState(h, act) /\ UNCHANGED mounted

\* The screen's onResult and onError (lines 22-33, 293-303) run inside the
\* hook's step, in the order the hook called them.
RECURSIVE callbacks(_, _)
callbacks(sc, cb) ==
    IF cb = <<>> THEN sc
    ELSE callbacks(IF Head(cb).k = "result"
                   THEN handleVoiceResult(sc, Head(cb).t)
                   ELSE screenError(sc),
                   Tail(cb))

\* A step of the hook: where no screen is mounted on it, its callbacks
\* reach nothing.
Commit(h, act) ==
    /\ CommitHook(h, act)
    /\ IF screen.v = "none" THEN UNCHANGED screenVars
       ELSE CommitScreen(callbacks(Sc, h.cb))

\* A call suspended at an await.  m is the speechMethod its closure saw,
\* mark the number of sessions that existed when it was suspended.
Call(op, pc, m, h) ==
    [op |-> op, pc |-> pc, m |-> m,
     mark |-> IF pc = "delay" THEN Len(h.sessions) ELSE 0]
Suspend(h, c) == [h EXCEPT !.calls = @ (+) SetToBag({c})]
Finish(h, c) == [h EXCEPT !.calls = @ (-) SetToBag({c})]
Move(h, c, pc) == Suspend(Finish(h, c), Call(c.op, pc, c.m, h))

\* ------------------------------------------------------- callbacks, setters
\* cb is the sequence of the callbacks made in the step, for the hook's user.
onError(h, msg) ==
    [h EXCEPT !.err = msg, !.cb = Append(@, [k |-> "error", t |-> msg])]
onResult(h, sid, t, c) ==
    [h EXCEPT !.delivered = Inc(@),
              !.cb = Append(@, [k |-> "result", t |-> t]),
              !.res = sid,
              !.text = t,
              !.conf = c,
              !.late = sessions[sid].stopped,
              !.sessions[sid].n =
                  IF h.sessions[sid].st = "off" THEN "none" ELSE Inc(@)]
setTranscript(h, t) == [h EXCEPT !.transcript = t]
\* A setter that publishes the state and leaves the ref behind: C32 does
\* not survive it.
setListening_stateOnly(h, b) == [h EXCEPT !.isListening = b]

\* setIsListening(b) and isRecordingRef.current = b: the code always writes
\* both, next to each other (lines 101-102, 527-528, 745-746, 849-850 ...).
setListening(h, b) == [h EXCEPT !.isListening = b, !.isRecordingRef = b]

\* clearTimeout(id): a pending timer never fires; anything else is a no-op.
clearTimeout(h, id) ==
    IF id # 0 /\ h.sessions[id].st = "pending"
    THEN Off(h, id)
    ELSE h

\* setTimeout(callback, 2000): a new pending timer, whose id is returned
\* into timeoutRef.current.
setTimeoutRef(h) ==
    [h EXCEPT !.sessions = Append(@, NewSession("sim", "pending")),
              !.timeoutRef = Len(h.sessions) + 1]

\* Bookkeeping for the claims: what was live when a stop took effect.
markStopped(h) ==
    LET ss == h.sessions
    IN [h EXCEPT !.sessions =
           [i \in DOMAIN ss |->
               IF i \in Live(ss) THEN [ss[i] EXCEPT !.stopped = TRUE] ELSE ss[i]]]

\* "if (timeoutRef.current) { clearTimeout(...); timeoutRef.current = null }"
clearTimeoutRef(h) ==
    IF h.timeoutRef # 0
    THEN [clearTimeout(h, h.timeoutRef) EXCEPT !.timeoutRef = 0]
    ELSE h

\* ================================================================= v3
\* stopListening, lines 863-880.  clearTimeout and the setters do not throw,
\* so the catch at 874-879 is never entered.
stopListening_v3(h) ==
    IF ~h.isRecordingRef THEN h
    ELSE setListening(clearTimeoutRef(markStopped(h)), FALSE)

\* simulateSpeechRecognition, lines 882-889 and 923: the timer is set; the
\* callback is simulateCallback_v3.
simulateSpeechRecognition(h) == setTimeoutRef(clearTimeout(h, h.timeoutRef))

\* The timer callback, lines 889-923; p is the phrase Math.random picks.
simulateCallback_v3(h, t, p) ==
    IF ~h.isRecordingRef THEN h
    ELSE LET h1 == onResult(setTranscript(h, p), t, p, SimConfidence)
         IN IF ~continuous THEN stopListening_v3(h1) ELSE h1

\* startListening from line 848 on (after the guards and the restart).
startBody_v3(h) == simulateSpeechRecognition(setListening(h, TRUE))

\* ================================================================= v2
\* The native module's start(): the module is a singleton, a recognition it
\* was still running is replaced.
expoStart(h) ==
    LET ss == h.sessions
        replaced == [i \in DOMAIN ss |->
                        IF ss[i].kind = "expo"
                        THEN NewSession("expo", "off") ELSE ss[i]]
    IN [h EXCEPT !.sessions = Append(replaced, NewSession("expo", "starting"))]

\* The native module's stop(): the running recognition, if any, is asked to
\* stop.
expoStop(h) ==
    LET ss == h.sessions
    IN [h EXCEPT !.sessions =
           [i \in DOMAIN ss |->
               IF ss[i].kind = "expo" /\ ss[i].st \in {"starting", "active"}
               THEN [ss[i] EXCEPT !.st = "stopping"] ELSE ss[i]]]

\* new SpeechRecognition(); recognitionRef.current = recognition;
\* recognition.start() (lines 570, 612-613; 252, 317-318).  When start
\* throws, the object is constructed and referenced but never started.
newRecognition(h, fail) ==
    [h EXCEPT !.sessions =
                  Append(@, NewSession("web", IF fail THEN "off" ELSE "starting")),
              !.recognitionRef = Len(h.sessions) + 1]

\* recognition.stop() on the object recognitionRef holds.
recognitionStop(h) ==
    LET id == h.recognitionRef
    IN IF h.sessions[id].st \in {"starting", "active"}
       THEN [h EXCEPT !.sessions[id].st = "stopping"]
       ELSE h

\* "if (recognitionRef.current) { try { stop(); ref = null } catch {} }"
\* (lines 733-740; 357-365): when stop throws the reference stays.
stopRecognitionRef(h, fail) ==
    IF h.recognitionRef # 0 /\ ~fail
    THEN [recognitionStop(h) EXCEPT !.recognitionRef = 0]
    ELSE h

\* stopListening, lines 711-748, in three parts.  Head: up to the await at
\* line 726.  Tail: from line 733 to the finally.
stopHead_v2(h) == clearTimeoutRef(markStopped(h))

\* "await expoSpeechRecognitionRef.current.stop()" inside try/catch.
stopExpo_v2(h, fail) == IF fail THEN h ELSE expoStop(h)

\* A stopListening that resets the flags in its try block, after the
\* teardown, instead of in the finally: C10 does not survive it.
stopTail_v2_inTry(h, fail) ==
    IF h.recognitionRef # 0 /\ fail THEN h
    ELSE setListening(stopRecognitionRef(h, fail), FALSE)

stopTail_v2(h, fail) == setListening(stopRecognitionRef(h, fail), FALSE)

\* startMobileSpeechRecognition, lines 616-625 and 657.
startMobileSpeechRecognition(h) ==
    setTimeoutRef(setTranscript(setListening(h, TRUE), ListeningNote))

\* Its timer callback, lines 625-657.  The stopListening it calls is the one
\* of the render that started the simulation, so speechMethod is
\* "simulation" there and the call runs to its end without suspending.
mobileCallback_v2(h, t, p, fail) ==
    IF ~h.isRecordingRef THEN h
    ELSE LET h1 == onResult(setTranscript(h, p), t, p, SimConfidence)
         IN IF ~continuous THEN stopTail_v2(stopHead_v2(h1), fail) ELSE h1

\* startListening from line 692 on: the try block and its catch.  m is the
\* closure's speechMethod, fail whether the provider's start throws.
\* With the native module, startListening is suspended at the await of
\* lines 665 and 697 until the module's start() settles.
startCaught_v2(h) == setListening(onError(h, ErrStartRecognition), FALSE)

startBody_v2(h, m, fail) ==
    LET h0 == setTranscript(h, "")
    IN CASE m = "expo" ->
              IF ~h0.expoRef THEN startCaught_v2(h0)
              ELSE Suspend(h0, Call("start", "expo_start", m, h0))
         [] m = "web" ->
              IF ~env.web THEN startCaught_v2(h0)
              ELSE IF fail THEN startCaught_v2(newRecognition(h0, TRUE))
              ELSE newRecognition(h0, FALSE)
         [] OTHER -> startMobileSpeechRecognition(h0)

\* The module's start() has settled, lines 665-671 and 697, 702-708: the
\* recognition is under way, or the rejection is caught.
startExpoSettled(h, fail) ==
    IF fail THEN startCaught_v2(h) ELSE expoStart(h)

\* An initializeSpeechRecognition that looks for the browser's recognizer
\* before the native module: C12 does not survive it.
initializeSpeechRecognition_webFirst(h) ==
    IF env.web
    THEN [h EXCEPT !.speechMethod = "web", !.hasPermission = "true"]
    ELSE IF env.expo = "granted"
    THEN Suspend([h EXCEPT !.speechMethod = "expo", !.hasPermission = "true",
                           !.expoRef = TRUE],
                 Call("setup", "import", "expo", h))
    ELSE [h EXCEPT !.speechMethod = "simulation", !.hasPermission = "true"]

\* initializeSpeechRecognition, lines 476-517, from its entry to its return:
\* nothing is written before the two awaits are over.  With the native
\* module granted, setupExpoSpeechRecognitionEvents is called and not
\* awaited: it suspends at its own import.
initializeSpeechRecognition(h) ==
    IF env.expo = "granted"
    THEN Suspend([h EXCEPT !.speechMethod = "expo", !.hasPermission = "true",
                           !.expoRef = TRUE],
                 Call("setup", "import", "expo", h))
    ELSE IF env.web
    THEN [h EXCEPT !.speechMethod = "web", !.hasPermission = "true"]
    ELSE [h EXCEPT !.speechMethod = "simulation", !.hasPermission = "true"]

\* setupExpoSpeechRecognitionEvents, lines 519-561, after its import: the
\* four listeners (start, end, result, error) are registered, unless
\* useSpeechRecognitionEvent throws, which the catch of lines 558-560
\* swallows.
setupExpoSpeechRecognitionEvents(h, fail) ==
    IF fail THEN h ELSE [h EXCEPT !.expoListeners = @ + 1]

\* ================================================================= v1
\* stopListening, lines 332-343: up to the await of the import.
stopHead_v1(h) == clearTimeoutRef(setListening(markStopped(h), FALSE))

\* stopListening, lines 346-378: after the import.  Each teardown has its
\* own try/catch; a stop that throws leaves its reference in place.  The
\* outer catch (379-384) is never entered.
stopTail_v1(h, expoFail, webFail, recFail) ==
    LET h1 == IF env.expo # "none" /\ ~expoFail THEN expoStop(h) ELSE h
        h2 == stopRecognitionRef(h1, webFail)
    IN IF h2.mediaRecorderRef = "recording" /\ ~recFail
       THEN [h2 EXCEPT !.mediaRecorderRef = "null"]
       ELSE h2

\* stopListening called and not awaited (lines 193, 277): it runs to its
\* first await and stays suspended there.
\* A stopListening without the guard of line 333: C6 does not survive it.
stopListening_v1_unguarded(h) ==
    Suspend(stopHead_v1(h), Call("stop", "stop_import", "", h))

stopListening_v1(h) ==
    IF ~h.isRecordingRef THEN h
    ELSE Suspend(stopHead_v1(h), Call("stop", "stop_import", "", h))

\* startListening, lines 101-103.
startHead_v1(h) == setListening(h, TRUE)

\* startAudioRecording, lines 118-164, after getUserMedia; every failure
\* is swallowed.  out is "recording" when the recorder starts, "inactive"
\* when its start() throws after the recorder was put in the ref (line
\* 156; a recorder that does not record is "null" here, as no recorder
\* is), "none" when the stream or the constructor fails before that.
RecorderOutcomes == {"recording", "inactive", "none"}
startAudioRecording(h, out) ==
    CASE out = "recording" -> [h EXCEPT !.mediaRecorderRef = "recording"]
      [] out = "inactive" -> [h EXCEPT !.mediaRecorderRef = "null"]
      [] OTHER -> h

\* startWebSpeechRecognition, lines 242-330.
startWebSpeechRecognition_v1(h, fail) ==
    IF env.web
    THEN IF fail THEN onError(newRecognition(h, TRUE), ErrWebStart)
         ELSE newRecognition(h, FALSE)
    ELSE onError(h, ErrUnsupported)

\* startSpeechRecognition, lines 166-240, after the import: a new set of
\* listeners is added at every start; when the module's start throws, the
\* browser recognizer is tried.
startSpeechRecognition(h, expoFail, webFail) ==
    IF env.expo # "none"
    THEN LET h1 == [h EXCEPT !.expoListeners = @ + 1]
         IN IF expoFail THEN startWebSpeechRecognition_v1(h1, webFail)
            ELSE expoStart(h1)
    ELSE startWebSpeechRecognition_v1(h, webFail)

\* requestPermissions, lines 47-85, from entry to return; micOk is whether
\* getUserMedia resolves.
requestPermissions_v1(h, micOk) ==
    IF env.expo = "granted" THEN [h EXCEPT !.hasPermission = "true"]
    ELSE IF env.mic /\ ~micOk
    THEN onError([h EXCEPT !.hasPermission = "false"], ErrPermissionRequired)
    ELSE [h EXCEPT !.hasPermission = "true"]

\* ------------------------------------------------- recognizer event handlers
\* The handler registered k times runs k times, in registration order.
RECURSIVE Times(_, _, _)
Times(F(_), h, k) == IF k = 0 THEN h ELSE Times(F, F(h), k - 1)

webErrorMessage(code) ==
    CASE code = "no-speech" -> ErrNoSpeech
      [] code = "network" -> ErrNetwork
      [] code = "not-allowed" -> ErrNotAllowed
      [] OTHER -> ErrRecognitionFailed \o code

\* recognition.onresult, lines 262-280.
webResult_v1(h, s, final, text, conf) ==
    IF ~final THEN h
    ELSE LET h1 == onResult(setTranscript(h, Trim(text)), s, Trim(text),
                            OrElse(conf, DefaultConfidence))
         IN IF ~continuous THEN stopListening_v1(h1) ELSE h1

\* recognition.onerror, lines 282-303.
webError_v1(h, code) == onError(h, webErrorMessage(code))

\* recognition.onend, lines 305-315: restart is whether the handler called
\* recognition.start() without it throwing.
webRestart_v1(h) == continuous /\ h.isRecordingRef

\* recognition.onstart / onresult / onerror / onend, lines 575-610.
webStart_v2(h) == setListening(h, TRUE)

webResult_v2(h, s, final, text, conf) ==
    LET finalTranscript == IF final THEN text ELSE ""
    IN IF finalTranscript # ""
       THEN onResult(setTranscript(h, finalTranscript), s, finalTranscript,
                     OrElse(conf, DefaultConfidence))
       ELSE h

webError_v2(h, code) ==
    onError(setListening(h, FALSE), ErrRecognitionFailed \o code)

webEnd_v2(h) == setListening(h, FALSE)

\* The listeners of setupExpoListeners, lines 177-214.
expoResult_v1(h, s, text, conf) ==
    IF text = "" THEN h
    ELSE LET h1 == onResult(setTranscript(h, Trim(text)), s, Trim(text),
                            OrElse(conf, DefaultConfidence))
         IN IF ~continuous THEN stopListening_v1(h1) ELSE h1

expoError_v1(h, code) ==
    setListening(onError(h, ErrRecognitionFailed \o code), FALSE)

expoEnd_v1(h) == setListening(h, FALSE)

\* The listeners of setupExpoSpeechRecognitionEvents, lines 525-557.
expoStart_v2(h) == setListening(h, TRUE)

expoEnd_v2(h) == setListening(h, FALSE)

expoResult_v2(h, s, text, conf) ==
    LET h1 == setTranscript(h, text)
    IN IF text # "" THEN onResult(h1, s, text, OrElse(conf, 0)) ELSE h1

expoError_v2(h, code) ==
    onError(setListening(h, FALSE), ErrRecognitionFailed \o code)

\* ================================================================ actions
\* The platform: expo is whether "expo-speech-recognition" can be imported
\* and, if so, whether it grants permission; web whether the page has a
\* SpeechRecognition (and, for v2, Platform.OS is "web"); mic whether
\* navigator.mediaDevices exists.  v3 asks the platform nothing and v2
\* never looks at mediaDevices.  v1 runs where mediaDevices exists (without
\* it the hook does what it does when getUserMedia succeeds for the
\* permission and fails for the recorder), and it treats a module that
\* denies permission like one that cannot be imported.
Envs ==
    [expo : {"none", "denied", "granted"}, web : BOOLEAN, mic : BOOLEAN]

\* Only the simulation can run: v3, and v2 without any recognizer.
Simulated ==
    \/ version = "v3"
    \/ version = "v2" /\ env.expo # "granted" /\ ~env.web

\* Whether an operation throws is open only where the operation is made.
Fails(made) == IF made THEN BOOLEAN ELSE {FALSE}

\* What a result event carries: a final text (words come with the
\* recognizer's confidence, an empty text with none), or an interim one.
FinalEvents ==
    {[final |-> TRUE, text |-> t,
      conf |-> IF t = "" THEN 0 ELSE HeardConfidence] : t \in Utterances}
ResultEvents ==
    FinalEvents \cup {[final |-> FALSE, text |-> " hello ", conf |-> 0]}

\* v2 asks its recognizers for interim results (lines 572, 667), v1 does
\* not (lines 222, 254).
Results == IF version = "v2" THEN ResultEvents ELSE FinalEvents

CallsLeft ==
    mounted /\ ncalls < (IF Simulated THEN MaxSimCalls ELSE MaxCalls)

\* The state after the first render and its effect (lines 33-35, 462-464,
\* 809-811): v1 and v2 have started their permission request, which is
\* suspended at its first await; v3's requestPermissions has no await and
\* has already set hasPermission.  The closures still see the first
\* render's values.
InitHook ==
    /\ version \in Versions
    /\ continuous \in BOOLEAN
    /\ env \in Envs
    /\ version = "v3" => env = [expo |-> "none", web |-> FALSE, mic |-> FALSE]
    /\ version = "v2" => ~env.mic
    /\ version = "v1" => env.mic /\ env.expo # "denied"
    /\ seen = [p |-> "null", m |-> "simulation"]
    /\ ncalls = 0
    /\ last = Quiet("-")
    /\ delivered = "none"
    /\ hasPermission = IF version = "v3" THEN "true" ELSE "null"
    /\ speechMethod = "simulation"
    /\ isListening = FALSE
    /\ isRecordingRef = FALSE
    /\ transcript = ""
    /\ timeoutRef = 0
    /\ recognitionRef = 0
    /\ mediaRecorderRef = "null"
    /\ expoSpeechRecognitionRef = FALSE
    /\ expoListeners = 0
    /\ sessions = <<>>
    /\ calls = IF version = "v3" THEN EmptyBag
               ELSE SetToBag({[op |-> "init", pc |-> "init", m |-> "", mark |-> 0]})
    /\ seenListening = FALSE
    /\ mounted = TRUE

\* The hook on its own: no screen is mounted.
Init ==
    /\ InitHook
    /\ screen = [v |-> "none", status |-> "", route |-> "", isRecording |-> FALSE]
    /\ messages = <<>>
    /\ replies = <<>>

\* React renders again: the handlers of the new render close over the
\* current state.
Render ==
    /\ seen # [p |-> hasPermission, m |-> speechMethod]
    /\ seen' = [p |-> hasPermission, m |-> speechMethod]
    /\ last' = Quiet("-")
    /\ UNCHANGED <<version, continuous, env, ncalls, delivered, hasPermission,
                   speechMethod, isListening, isRecordingRef, transcript,
                   timeoutRef, recognitionRef, mediaRecorderRef,
                   expoSpeechRecognitionRef, expoListeners, sessions, calls,
                   seenListening, mounted, screenVars>>

\* requestPermissions (v1) / initializeSpeechRecognition (v2) returns.
Initialize(i) ==
    /\ i.op = "init"
    /\ \/ /\ version = "v1"
          /\ \E micOk \in BOOLEAN :
                Commit(requestPermissions_v1(Finish(Cur, i), micOk), "initialize")
       \/ /\ version = "v2"
          /\ Commit(initializeSpeechRecognition(Finish(Cur, i)), "initialize")
    /\ UNCHANGED <<seen, ncalls>>

\* setupExpoSpeechRecognitionEvents resumes after its import.
SetupEvents(i) ==
    /\ i.op = "setup"
    /\ \E fail \in BOOLEAN :
          Commit(setupExpoSpeechRecognitionEvents(Finish(Cur, i), fail),
                 "setupEvents")
    /\ UNCHANGED <<seen, ncalls>>

\* startListening is called: lines 87-109 (v1), 674-702 (v2), 835-854 (v3),
\* up to the first await that suspends.
\* A startListening without the permission guard of lines 88-91: C8 does
\* not survive it.
startListening_v1_unchecked(h) ==
    IF h.isRecordingRef
    THEN Suspend(stopHead_v1(h), Call("start", "stop_import", "", h))
    ELSE Suspend(startHead_v1(h),
                 Call("start", IF env.mic THEN "rec_media" ELSE "sr_import",
                      "", h))

startListening_v1(h) ==
    IF seen.p # "true" THEN onError(h, ErrNotGranted)
    ELSE IF h.isRecordingRef
    THEN Suspend(stopHead_v1(h), Call("start", "stop_import", "", h))
    ELSE Suspend(startHead_v1(h),
                 Call("start", IF env.mic THEN "rec_media" ELSE "sr_import",
                      "", h))

startListening_v2(h, fail) ==
    IF seen.p = "null" THEN Suspend(h, Call("init", "init", "", h))
    ELSE IF seen.p # "true" THEN onError(h, ErrNotGranted)
    ELSE IF h.isRecordingRef
    THEN LET h1 == stopHead_v2(h)
         IN IF seen.m = "expo" /\ h1.expoRef
            THEN Suspend(stopExpo_v2(h1, fail),
                         Call("start", "stop_expo", seen.m, h1))
            ELSE LET h2 == stopTail_v2(h1, fail)
                 IN Suspend(h2, Call("start", "delay", seen.m, h2))
    ELSE startBody_v2(h, seen.m, fail)

startListening_v3(h) ==
    IF seen.p # "true" THEN onError(h, ErrNotGranted)
    ELSE IF h.isRecordingRef
    THEN LET h1 == stopListening_v3(h)
         IN Suspend(h1, Call("start", "delay", "", h1))
    ELSE startBody_v3(h)

\* A call that did not add itself to the suspended calls has returned.
StartLabel(h) ==
    IF BagCardinality(h.calls) > BagCardinality(calls) THEN "-"
    ELSE "startListening"

StartCall ==
    \E fail \in Fails(version = "v2" /\ seen.p = "true") :
       LET h == CASE version = "v1" -> startListening_v1(Cur)
                  [] version = "v2" -> startListening_v2(Cur, fail)
                  [] OTHER -> startListening_v3(Cur)
       IN Commit(h, StartLabel(h))

StartListening ==
    /\ CallsLeft
    /\ ncalls' = ncalls + 1
    /\ StartCall
    /\ UNCHANGED seen

\* stopListening is called by the hook's user: lines 332-343 (v1), 711-731
\* (v2), 863-880 (v3).
\* m is the speechMethod of the closure the call is made from.
stopListeningFrom_v2(h, m, fail) ==
    IF ~h.isRecordingRef THEN h
    ELSE LET h1 == stopHead_v2(h)
         IN IF m = "expo" /\ h1.expoRef
            THEN Suspend(stopExpo_v2(h1, fail),
                         Call("stop", "stop_expo", m, h1))
            ELSE stopTail_v2(h1, fail)

stopListening_v2(h, fail) == stopListeningFrom_v2(h, seen.m, fail)

StopLabel(h) ==
    IF BagCardinality(h.calls) > BagCardinality(calls) THEN "-"
    ELSE "stopListening"

StopCall ==
    \E fail \in Fails(version = "v2" /\ isRecordingRef) :
       LET h == CASE version = "v1" -> stopListening_v1(Cur)
                  [] version = "v2" -> stopListening_v2(Cur, fail)
                  [] OTHER -> stopListening_v3(Cur)
       IN Commit(h, StopLabel(h))

StopListening ==
    /\ CallsLeft
    /\ ncalls' = ncalls + 1
    /\ StopCall
    /\ UNCHANGED seen

\* toggle, lines 400-406, 763-769, 939-945: isListening is the state the
\* render that made this closure saw.
Toggle ==
    /\ CallsLeft
    /\ ncalls' = ncalls + 1
    /\ IF seenListening THEN StopCall ELSE StartCall
    /\ UNCHANGED seen

\* React renders again, and toggle's closure sees the current isListening
\* too.
RenderListening ==
    /\ \/ seen # [p |-> hasPermission, m |-> speechMethod]
       \/ seenListening # isListening
    /\ seen' = [p |-> hasPermission, m |-> speechMethod]
    /\ seenListening' = isListening
    /\ last' = Quiet("-")
    /\ UNCHANGED <<version, continuous, env, ncalls, delivered, hasPermission,
                   speechMethod, isListening, isRecordingRef, transcript,
                   timeoutRef, recognitionRef, mediaRecorderRef,
                   expoSpeechRecognitionRef, expoListeners, sessions, calls,
                   mounted, screenVars>>

\* speak, lines 387-398, 750-761, 926-937: fail is whether Speech.speak
\* throws or rejects.
ErrSpeak == "Failed to speak text"

\* A speak that treats a failed synthesis like a failed recognition and
\* resets the flags: C19 does not survive it.
speak_resetting(h, fail) ==
    IF fail THEN setListening(onError(h, ErrSpeak), FALSE) ELSE h

speak(h, fail) == IF fail THEN onError(h, ErrSpeak) ELSE h

Speak ==
    /\ \E fail \in BOOLEAN : Commit(speak(Cur, fail), "speak")
    /\ UNCHANGED <<seen, ncalls>>

\* A suspended stopListening resumes (v1: after its import; v2: after the
\* native module's stop) and runs to its end.  Inside startListening the
\* 100 ms delay follows (lines 95-97, 688-689).
AfterStop(h, i) ==
    IF i.op = "start" THEN Move(h, i, "delay") ELSE Finish(h, i)

ResumeStop(i) ==
    /\ i.pc \in {"stop_import", "stop_expo"}
    /\ \E expoFail \in Fails(version = "v1" /\ env.expo # "none"),
          webFail \in Fails(recognitionRef # 0),
          recFail \in Fails(mediaRecorderRef = "recording") :
          LET h == IF version = "v1"
                   THEN stopTail_v1(Cur, expoFail, webFail, recFail)
                   ELSE stopTail_v2(Cur, webFail)
          IN Commit(AfterStop(h, i),
                    IF i.op = "start" THEN "-" ELSE "stopListening")
    /\ UNCHANGED <<seen, ncalls>>

\* The 100 ms delay is over: startListening goes on with its try block.
ResumeDelay(i) ==
    /\ i.pc = "delay"
    /\ \E fail \in Fails(version = "v2") :
          LET h == CASE version = "v1" ->
                          Move(startHead_v1(Cur), i,
                               IF env.mic THEN "rec_media" ELSE "sr_import")
                     [] version = "v2" ->
                          startBody_v2(Finish(Cur, i), i.m, fail)
                     [] OTHER -> startBody_v3(Finish(Cur, i))
          IN Commit(h, IF BagCardinality(h.calls) >= BagCardinality(calls)
                       THEN "-" ELSE "startListening")
    /\ UNCHANGED <<seen, ncalls>>

\* v2: the native module's start() settles and startListening returns.
ResumeExpoStart(i) ==
    /\ i.pc = "expo_start"
    /\ \E fail \in BOOLEAN :
          Commit(startExpoSettled(Finish(Cur, i), fail), "startListening")
    /\ UNCHANGED <<seen, ncalls>>

\* v1: getUserMedia settles, startAudioRecording returns and
\* startSpeechRecognition suspends at its import.
ResumeMedia(i) ==
    /\ i.pc = "rec_media"
    /\ \E out \in RecorderOutcomes :
          Commit(Move(startAudioRecording(Cur, out), i, "sr_import"), "-")
    /\ UNCHANGED <<seen, ncalls>>

\* v1: the import settles, startSpeechRecognition and startListening return.
ResumeImport(i) ==
    /\ i.pc = "sr_import"
    /\ \E expoFail \in Fails(env.expo # "none"), webFail \in Fails(env.web) :
          Commit(startSpeechRecognition(Finish(Cur, i), expoFail, webFail),
                 "startListening")
    /\ UNCHANGED <<seen, ncalls>>

\* A timer set for 2000 ms cannot fire before a 100 ms delay that began
\* before the timer was set is over, nor before a 2000 ms timer set earlier.
TimerDue(t) ==
    /\ \A c \in BagToSet(calls) : c.pc = "delay" => t <= c.mark
    /\ \A u \in 1..(t - 1) :
          ~(sessions[u].kind = "sim" /\ sessions[u].st = "pending")

\* The simulation's timer fires.
TimerFire(t) ==
    /\ sessions[t].kind = "sim" /\ sessions[t].st = "pending"
    /\ TimerDue(t)
    /\ LET h0 == Off(Cur, t)
       IN IF version = "v3"
          THEN \E p \in mockTranscripts :
                  Commit(simulateCallback_v3(h0, t, p), "-")
          ELSE \E p \in simulatedResponses, fail \in Fails(recognitionRef # 0) :
                  Commit(mobileCallback_v2(h0, t, p, fail), "-")
    /\ UNCHANGED <<seen, ncalls>>

\* The browser recognizer delivers an event to the handlers of object s.
WebStartEvent(s) ==
    /\ sessions[s].kind = "web" /\ sessions[s].st = "starting"
    /\ LET h0 == [Cur EXCEPT !.sessions[s].st = "active"]
       IN Commit(IF version = "v2" THEN webStart_v2(h0) ELSE h0, "-")
    /\ UNCHANGED <<seen, ncalls>>

WebResultEvent(s) ==
    /\ sessions[s].kind = "web" /\ sessions[s].st \in {"active", "stopping"}
    /\ \E e \in Results :
          LET h0 == [Cur EXCEPT !.interim = ~e.final]
          IN Commit(IF version = "v2"
                    THEN webResult_v2(h0, s, e.final, e.text, e.conf)
                    ELSE webResult_v1(h0, s, e.final, e.text, e.conf), "-")
    /\ UNCHANGED <<seen, ncalls>>

WebErrorEvent(s) ==
    /\ sessions[s].kind = "web"
    /\ sessions[s].st \in {"starting", "active", "stopping"}
    /\ LET h0 == Ending(Cur, s)
       IN \E code \in ErrorCodes :
             Commit(IF version = "v2" THEN webError_v2(h0, code)
                    ELSE webError_v1(h0, code), "-")
    /\ UNCHANGED <<seen, ncalls>>

WebEndEvent(s) ==
    /\ sessions[s].kind = "web"
    /\ sessions[s].st \in {"active", "stopping", "ending"}
    /\ LET h0 == Off(Cur, s)
       IN IF version = "v2" THEN Commit(webEnd_v2(h0), "-")
          ELSE \E fail \in Fails(webRestart_v1(h0)) :
                  Commit(IF webRestart_v1(h0) /\ ~fail
                         THEN [h0 EXCEPT !.sessions[s].st = "starting"]
                         ELSE h0, "-")
    /\ UNCHANGED <<seen, ncalls>>

\* The native module delivers an event of its running recognition s to every
\* registered listener.
ExpoRunning(s) ==
    sessions[s].kind = "expo" /\ sessions[s].st # "off"

ExpoStartEvent(s) ==
    /\ ExpoRunning(s) /\ sessions[s].st = "starting"
    /\ LET h0 == [Cur EXCEPT !.sessions[s].st = "active"]
       IN Commit(IF version = "v2"
                 THEN Times(expoStart_v2, h0, expoListeners) ELSE h0,
                 "-")
    /\ UNCHANGED <<seen, ncalls>>

ExpoResultEvent(s) ==
    /\ ExpoRunning(s) /\ sessions[s].st \in {"active", "stopping"}
    /\ \E e \in Results :
          LET h0 == [Cur EXCEPT !.interim = ~e.final]
          IN Commit(IF version = "v2"
                    THEN Times(LAMBDA x : expoResult_v2(x, s, e.text, e.conf),
                               h0, expoListeners)
                    ELSE Times(LAMBDA x : expoResult_v1(x, s, e.text, e.conf),
                               h0, expoListeners),
                    "-")
    /\ UNCHANGED <<seen, ncalls>>

ExpoErrorEvent(s) ==
    /\ ExpoRunning(s) /\ sessions[s].st \in {"starting", "active", "stopping"}
    /\ LET h0 == Ending(Cur, s)
       IN \E code \in ErrorCodes :
             Commit(IF version = "v2"
                    THEN Times(LAMBDA x : expoError_v2(x, code), h0, expoListeners)
                    ELSE Times(LAMBDA x : expoError_v1(x, code), h0, expoListeners),
                    "-")
    /\ UNCHANGED <<seen, ncalls>>

ExpoEndEvent(s) ==
    /\ ExpoRunning(s) /\ sessions[s].st \in {"active", "stopping", "ending"}
    /\ LET h0 == Off(Cur, s)
       IN Commit(IF version = "v2"
                 THEN Times(expoEnd_v2, h0, expoListeners)
                 ELSE Times(expoEnd_v1, h0, expoListeners), "-")
    /\ UNCHANGED <<seen, ncalls>>

Next ==
    \/ Render
    \/ StartListening
    \/ StopListening
    \/ \E i \in BagToSet(calls) : Initialize(i)
    \/ \E i \in BagToSet(calls) : SetupEvents(i)
    \/ \E i \in BagToSet(calls) : ResumeStop(i)
    \/ \E i \in BagToSet(calls) : ResumeDelay(i)
    \/ \E i \in BagToSet(calls) : ResumeExpoStart(i)
    \/ \E i \in BagToSet(calls) : ResumeMedia(i)
    \/ \E i \in BagToSet(calls) : ResumeImport(i)
    \/ \E s \in DOMAIN sessions : TimerFire(s)
    \/ \E s \in DOMAIN sessions : WebStartEvent(s)
    \/ \E s \in DOMAIN sessions : WebResultEvent(s)
    \/ \E s \in DOMAIN sessions : WebErrorEvent(s)
    \/ \E s \in DOMAIN sessions : WebEndEvent(s)
    \/ \E s \in DOMAIN sessions : ExpoStartEvent(s)
    \/ \E s \in DOMAIN sessions : ExpoResultEvent(s)
    \/ \E s \in DOMAIN sessions : ExpoErrorEvent(s)
    \/ \E s \in DOMAIN sessions : ExpoEndEvent(s)

Spec == Init /\ [][Next]_vars

\* ------------------------------------------------ the simulated provider
\* The hook where only the simulation can run, with the timers and the
\* 100 ms delays that are pending sure to elapse (the event loop runs a
\* timer that is due), and with the screen's calls of speak.
SimInit == Init /\ Simulated

SimNext ==
    \/ Render
    \/ StartListening
    \/ StopListening
    \/ Speak
    \/ \E i \in BagToSet(calls) : Initialize(i)
    \/ \E i \in BagToSet(calls) : ResumeDelay(i)
    \/ \E t \in DOMAIN sessions : TimerFire(t)

SimSpec ==
    /\ SimInit
    /\ [][SimNext]_vars
    /\ WF_vars(\E i \in BagToSet(calls) : ResumeDelay(i))
    /\ WF_vars(\E t \in DOMAIN sessions : TimerFire(t))

\* ----------------------------------------------------------------- toggle
\* The hook driven the way the screen drives it: through toggle.
ToggleNext ==
    \/ RenderListening
    \/ Toggle
    \/ \E i \in BagToSet(calls) : Initialize(i)
    \/ \E i \in BagToSet(calls) : SetupEvents(i)
    \/ \E i \in BagToSet(calls) : ResumeStop(i)
    \/ \E i \in BagToSet(calls) : ResumeDelay(i)
    \/ \E i \in BagToSet(calls) : ResumeExpoStart(i)
    \/ \E i \in BagToSet(calls) : ResumeMedia(i)
    \/ \E i \in BagToSet(calls) : ResumeImport(i)
    \/ \E t \in DOMAIN sessions : TimerFire(t)
    \/ \E s \in DOMAIN sessions : WebStartEvent(s)
    \/ \E s \in DOMAIN sessions : WebResultEvent(s)
    \/ \E s \in DOMAIN sessions : WebErrorEvent(s)
    \/ \E s \in DOMAIN sessions : WebEndEvent(s)
    \/ \E s \in DOMAIN sessions : ExpoStartEvent(s)
    \/ \E s \in DOMAIN sessions : ExpoResultEvent(s)
    \/ \E s \in DOMAIN sessions : ExpoErrorEvent(s)
    \/ \E s \in DOMAIN sessions : ExpoEndEvent(s)

ToggleSpec == Init /\ [][ToggleNext]_vars

\* --------------------------------------------------------------- teardown
\* The cleanup of the mount effect, lines 37-44, 466-473, 815-822: the
\* timer in timeoutRef is cleared (the ref keeps its value) and, if the
\* recording flag is set, stopListening is called and not awaited.  The
\* effect has no dependencies, so the stopListening called is the first
\* render's, whose speechMethod is the initial "simulation".
cleanup(h, fail) ==
    LET h1 == clearTimeout(h, h.timeoutRef)
    IN CASE version = "v1" -> stopListening_v1(h1)
         [] version = "v2" -> stopListeningFrom_v2(h1, "simulation", fail)
         [] OTHER -> stopListening_v3(h1)

\* The component is unmounted: its user makes no call any more; what is
\* suspended, pending or running goes on.
Unmount ==
    /\ mounted
    /\ mounted' = FALSE
    /\ \E fail \in Fails(version = "v2" /\ isRecordingRef) :
          CommitState(cleanup(Cur, fail), "unmount")
    /\ UNCHANGED <<seen, ncalls, screenVars>>

TeardownNext == Next \/ Unmount

TeardownSpec == Init /\ [][TeardownNext]_vars

\* ------------------------------------------------------------ VoiceScreen
\* The screen, src/screens/VoiceScreen.tsx, in its two versions: s1 (lines
\* 17-271) speaks the reply, s2 (lines 288-460) does not.  Both mount the
\* hook with onResult and onError only, so continuous is false.
MaxTurns == 3

Users == SelectSeq(messages, LAMBDA m : m.sender = "user")
AIs == SelectSeq(messages, LAMBDA m : m.sender = "ai")

\* The screen is mounted on a hook that has just been constructed.
ScreenInit ==
    /\ InitHook /\ Simulated /\ ~continuous
    /\ screen \in [v : Screens, status : {StatusIdle}, route : {"Voice"},
                   isRecording : {FALSE}]
    /\ messages = <<>>
    /\ replies = <<>>

\* A transcript is handed to the screen: by the hook's onResult (lines
\* 24-27, 294-296) or by the tap on a suggestion.
HandleVoiceResult(t) ==
    /\ Len(Users) < MaxTurns
    /\ CommitScreen(handleVoiceResult(Sc, t))
    /\ UNCHANGED hookVars

\* The oldest reply timer fires (all are set for 1000 ms).  s1 then calls
\* the hook's speak (lines 51-57), which reports a failed synthesis to the
\* screen's onError.
ReplyTimer ==
    /\ replies # <<>>
    /\ IF screen.v = "s1"
       THEN \E fail \in BOOLEAN :
               /\ CommitHook(speak(Cur, fail), "speak")
               /\ CommitScreen(IF fail THEN screenError(replyCallback(Sc))
                               ELSE replyCallback(Sc))
               /\ UNCHANGED <<seen, ncalls>>
       ELSE CommitScreen(replyCallback(Sc)) /\ UNCHANGED hookVars

\* The settings button is pressed.
SettingsPress ==
    /\ CommitScreen(settingsPress(Sc))
    /\ UNCHANGED hookVars

ScreenNext ==
    \/ \E t \in Heard : HandleVoiceResult(t)
    \/ ReplyTimer
    \/ SettingsPress

\* A timer that was set fires.
ScreenSpec == ScreenInit /\ [][ScreenNext]_vars /\ WF_vars(ReplyTimer)

\* ------------------------------------------------- the screen on the hook
\* The screen mounted on the hook: the microphone button calls toggle, the
\* hook's callbacks reach the screen's onResult and onError.
MaxHeard == 1

MicInit ==
    /\ InitHook /\ ~continuous
    /\ screen \in [v : Screens, status : {StatusIdle}, route : {"Voice"},
                   isRecording : {FALSE}]
    /\ messages = <<>>
    /\ replies = <<>>

\* toggle, lines 400-406, 763-769, 939-945, as an operator on the hook.
toggle(h, fail) ==
    IF seenListening
    THEN CASE version = "v1" -> stopListening_v1(h)
           [] version = "v2" -> stopListening_v2(h, fail)
           [] OTHER -> stopListening_v3(h)
    ELSE CASE version = "v1" -> startListening_v1(h)
           [] version = "v2" -> startListening_v2(h, fail)
           [] OTHER -> startListening_v3(h)

\* The microphone button is pressed.  The render that saw hasPermission
\* false disabled the button (lines 120, 364; MicrophoneButton is not part
\* of these sources and is taken to ignore presses while disabled): the
\* press reaches no handler.  Otherwise handleMicPress runs, then (unless
\* it returned) toggle, whose callbacks run before the press returns.
MicPress ==
    /\ CallsLeft
    /\ LET sc == handleMicPress(Sc, seenListening, seen.p)
       IN IF seen.p = "false"
          THEN /\ CommitHook(Cur, "disabled")
               /\ UNCHANGED <<ncalls, screenVars>>
          ELSE IF micBlocked(Sc, seenListening, seen.p)
          THEN /\ CommitHook(Cur, "blocked")
               /\ CommitScreen(sc)
               /\ UNCHANGED ncalls
          ELSE /\ ncalls' = ncalls + 1
               /\ \E fail \in Fails(version = "v2"
                                    /\ IF seenListening THEN isRecordingRef
                                       ELSE seen.p = "true") :
                     LET h == toggle(Cur, fail)
                     IN /\ CommitHook(h, "toggle")
                        /\ CommitScreen(callbacks(sc, h.cb))
    /\ UNCHANGED seen

\* A suggestion is tapped.
SuggestionTap(t) ==
    /\ t \in suggestions(screen.v)
    /\ CommitScreen(suggestionPress(Sc, t))
    /\ CommitHook(Cur, "suggestion")
    /\ UNCHANGED <<seen, ncalls>>

\* The chat holds at most MaxHeard user messages before the next one.
TurnsLeft == Len(Users) < MaxHeard

MicNext ==
    \/ RenderListening
    \/ MicPress
    \/ ReplyTimer
    \/ SettingsPress
    \/ TurnsLeft /\ \E t \in suggestions(screen.v) : SuggestionTap(t)
    \/ TurnsLeft /\ \E i \in BagToSet(calls) : Initialize(i)
    \/ TurnsLeft /\ \E i \in BagToSet(calls) : SetupEvents(i)
    \/ TurnsLeft /\ \E i \in BagToSet(calls) : ResumeStop(i)
    \/ TurnsLeft /\ \E i \in BagToSet(calls) : ResumeDelay(i)
    \/ TurnsLeft /\ \E i \in BagToSet(calls) : ResumeExpoStart(i)
    \/ TurnsLeft /\ \E i \in BagToSet(calls) : ResumeMedia(i)
    \/ TurnsLeft /\ \E i \in BagToSet(calls) : ResumeImport(i)
    \/ TurnsLeft /\ \E t \in DOMAIN sessions : TimerFire(t)
    \/ TurnsLeft /\ \E s \in DOMAIN sessions : WebStartEvent(s)
    \/ TurnsLeft /\ \E s \in DOMAIN sessions : WebResultEvent(s)
    \/ TurnsLeft /\ \E s \in DOMAIN sessions : WebErrorEvent(s)
    \/ TurnsLeft /\ \E s \in DOMAIN sessions : WebEndEvent(s)
    \/ TurnsLeft /\ \E s \in DOMAIN sessions : ExpoStartEvent(s)
    \/ TurnsLeft /\ \E s \in DOMAIN sessions : ExpoResultEvent(s)
    \/ TurnsLeft /\ \E s \in DOMAIN sessions : ExpoErrorEvent(s)
    \/ TurnsLeft /\ \E s \in DOMAIN sessions : ExpoEndEvent(s)

MicSpec == MicInit /\ [][MicNext]_vars

\* The same where only the simulation can run, with at most MaxTaps
\* presses of the microphone button.
MaxTaps == 2

TapNext ==
    \/ RenderListening
    \/ ncalls < MaxTaps /\ MicPress
    \/ ReplyTimer
    \/ SettingsPress
    \/ TurnsLeft /\ \E t \in suggestions(screen.v) : SuggestionTap(t)
    \/ TurnsLeft /\ \E i \in BagToSet(calls) : Initialize(i)
    \/ TurnsLeft /\ \E i \in BagToSet(calls) : ResumeDelay(i)
    \/ TurnsLeft /\ \E t \in DOMAIN sessions : TimerFire(t)

TapInit == MicInit /\ Simulated

TapSpec == TapInit /\ [][TapNext]_vars

\* ================================================================= claims
\* A startListening call is in progress: suspended at one of its awaits.
StartInProgress == \E c \in BagToSet(calls) : c.op = "start"

\* C1: at most one capture session is active at any instant: never more
\* than one started recognition or pending simulation timer.
C1_AtMostOneActive == Cardinality(Live(sessions)) <= 1

\* C2: never wedged: when the active flag is true and no startListening is
\* in progress, some provider is active.
C2_NeverWedged ==
    ((isListening \/ isRecordingRef) /\ ~StartInProgress)
        => Live(sessions) # {}

\* C3: a stopListening called while a simulation timer is pending cancels
\* it: onResult is never called for that timer afterwards.
C3_NoStaleEmission ==
    (last.res # 0 /\ sessions[last.res].kind = "sim") => ~last.late

\* C4: for every provider, once stopListening has been called on an active
\* session, onResult is not called for that session any more.
C4_NoResultAfterStop == last.res # 0 => ~last.late

\* C5: with continuous = false the first final result ends the session: the
\* flags are false right after onResult, and no session gets onResult twice.
C5_FirstResultEnds ==
    ~continuous =>
        /\ last.res # 0 => ~isListening /\ ~isRecordingRef
        /\ \A i \in DOMAIN sessions : sessions[i].n # "many"

\* C6: stopListening is idempotent.  Called with no session active it
\* changes nothing (no flag, transcript, handle or provider, no suspended
\* call) and calls no callback; called twice in a row, with the same outcome
\* of the teardown, it leaves what one call leaves.
C6_StopIdempotent ==
    \A fail \in BOOLEAN :
        LET stop(h) == CASE version = "v1" -> stopListening_v1(h)
                         [] version = "v2" -> stopListening_v2(h, fail)
                         [] OTHER -> stopListening_v3(h)
            controller(h) ==
                <<h.isListening, h.isRecordingRef, h.transcript, h.timeoutRef,
                  h.recognitionRef, h.mediaRecorderRef, h.sessions, h.err,
                  h.res>>
            once == stop(Cur)
            twice == stop(once)
        IN /\ ~isRecordingRef => once = Cur
           /\ controller(twice) = controller(once)

\* The first call the user makes is a stopListening, with permission
\* granted and nothing started: it has returned.
C6_Witness ==
    /\ ncalls = 1 /\ last.ret = "stopListening"
    /\ hasPermission = "true" /\ sessions = <<>>

\* C7: two startListening calls in quick succession with continuous = false
\* deliver one final result in total: once onResult was called for one
\* session, it is not called for another one.
C7_OneResultForTwoStarts ==
    (~continuous /\ ncalls <= 2 /\ last.res # 0) =>
        \A i \in DOMAIN sessions \ {last.res} : sessions[i].n = "none"

\* C8: with permission denied, a startListening call reports the permission
\* error, starts no provider and no timer, and the flags stay false.
C8_DeniedStartsNothing ==
    (hasPermission = "false" /\ last.ret = "startListening") =>
        /\ last.err = ErrNotGranted
        /\ sessions = <<>> /\ timeoutRef = 0 /\ recognitionRef = 0
        /\ mediaRecorderRef = "null"
        /\ ~isListening /\ ~isRecordingRef
        /\ ~StartInProgress

\* Permission was denied, the closures have seen it, and a startListening
\* call has returned.
C8_Witness ==
    /\ hasPermission = "false" /\ seen.p = "false"
    /\ last.ret = "startListening" /\ last.err = ErrNotGranted

\* C9: when the provider's start throws, startListening does not throw: it
\* reports the error and returns with the flags false.
StartFailures == {ErrStartRecording, ErrStartRecognition, ErrWebStart}

C9_StartFailureResets ==
    (last.ret = "startListening" /\ last.err \in StartFailures) =>
        ~isListening /\ ~isRecordingRef

\* C10, as the specification words it: whenever a stopListening call has
\* completed, the flags are false.
C10_FalseAtCompletion ==
    last.ret = "stopListening" => ~isListening /\ ~isRecordingRef

\* C10, as the code has it: stopListening resets the flags whatever its
\* teardown does.  v2 and v3 reset them last, so they are false when the
\* call completes.  v1 resets them when it is called, before its teardown,
\* and the teardown leaves them alone: they are true at completion only if
\* something set them while the teardown was suspended.
C10_FlagsReset ==
    [][/\ (last'.ret = "stopListening" /\ (isListening' \/ isRecordingRef'))
              => (version = "v1" /\ ncalls' = ncalls
                     /\ isListening /\ isRecordingRef)
       /\ (version = "v1" /\ StopListening)
              => (~isListening' /\ ~isRecordingRef')]_vars

\* A stopListening has completed on a browser recognition whose stop()
\* threw: the recognition is still referenced and running, the flags are
\* false.
C10_Witness ==
    /\ last.ret = "stopListening"
    /\ recognitionRef # 0
    /\ sessions[recognitionRef].st = "active"
    /\ sessions[recognitionRef].stopped
    /\ ~isListening /\ ~isRecordingRef

\* The messages of the recognizers' error handlers.
RuntimeErrors ==
    {webErrorMessage(c) : c \in ErrorCodes}
        \cup {ErrRecognitionFailed \o c : c \in ErrorCodes}

\* C11: when a recognizer's error event has been handled, onError has been
\* invoked with its message, isListening and the recording flag are false
\* and no recognition or timer remains live.
C11_ErrorReturnsToIdle ==
    last.err \in RuntimeErrors
        => ~isListening /\ ~isRecordingRef /\ Live(sessions) = {}

\* The provider the platform calls for: the native module when it can be
\* imported and grants permission, else the browser's recognizer when the
\* page has one, else the simulation.
Preferred ==
    IF env.expo = "granted" THEN "expo"
    ELSE IF env.web THEN "web" ELSE "simulation"

\* C12: once initializeSpeechRecognition has run, the selected provider is
\* the first available one in the order native, browser, simulated; a
\* lower one is never selected while a higher one is available.
C12_StrictPriority ==
    (version = "v2" /\ hasPermission # "null") => speechMethod = Preferred

\* initializeSpeechRecognition has just returned on a platform that has
\* both the native module and the browser's recognizer, and selected the
\* native module.
C12_Witness ==
    /\ version = "v2" /\ last.ret = "initialize"
    /\ env.expo = "granted" /\ env.web
    /\ hasPermission = "true" /\ speechMethod = "expo"

\* The permission request of the first render's effect has returned.
Initialized == \A c \in BagToSet(calls) : c.op # "init"

\* C13: whatever the platform, once initialization has ended the permission
\* is granted, and no startListening made from then on (by a render that
\* has seen the permission) reports a missing permission or a missing
\* recognizer.
C13_InitEndsUsable ==
    Initialized =>
        /\ hasPermission = "true"
        /\ seen.p # "null" => last.err \notin {ErrNotGranted, ErrUnsupported}

\* C14: the provider is chosen once: all the sessions of one mounted hook
\* are sessions of the same provider.
C14_ProviderNeverChanges ==
    \A i, j \in DOMAIN sessions : sessions[i].kind = sessions[j].kind

\* C16: with continuous = true, when a recognition that is running and that
\* stopListening has not been called on ends by itself, the handlers of
\* its end event leave the flags true and a recognition of the same
\* provider live.
C16_EndRestarts ==
    [][\A s \in DOMAIN sessions :
          (/\ WebEndEvent(s) \/ ExpoEndEvent(s)
           /\ continuous /\ isListening /\ isRecordingRef
           /\ sessions[s].st = "active" /\ ~sessions[s].stopped)
              => /\ isListening' /\ isRecordingRef'
                 /\ \E t \in Live(sessions') :
                       sessions'[t].kind = sessions[s].kind]_vars

\* C17: onResult is invoked only for a final result of a recognizer, never
\* for an interim one, and when it has been invoked with a transcript, the
\* transcript state is that transcript.
C17_FinalResultsOnly ==
    last.res # 0 => ~last.interim /\ transcript = last.text

\* The candidate phrases of the running version's simulation.
Candidates == IF version = "v3" THEN mockTranscripts ELSE simulatedResponses

\* The timer of simulated session s is pending and stopListening has not
\* been called since it was set.
Unstopped(s) ==
    /\ sessions[s].kind = "sim" /\ sessions[s].st = "pending"
    /\ ~sessions[s].stopped

\* No timer of the simulation is pending.
NoTimer ==
    \A s \in DOMAIN sessions :
        ~(sessions[s].kind = "sim" /\ sessions[s].st = "pending")

\* No timer stays pending for ever: each one fires, unless a stopListening
\* clears it first.  A behaviour makes finitely many calls, so this is to
\* say that from some point on no timer is pending.
TimerElapses == <>[]NoTimer

\* C15: in simulation with continuous = false, when the timer of a started
\* session that no stop followed fires (as TimerElapses says it will),
\* onResult is invoked exactly once, for that session, with one of the
\* candidate phrases and confidence 0.95, and the session has ended: the
\* flags are false and no timer is pending or referenced.
C15_SimulatedSessionCompletes ==
    [][\A s \in DOMAIN sessions :
          (~continuous /\ Unstopped(s) /\ TimerFire(s))
              => /\ last'.res = s /\ delivered' = Inc(delivered)
                 /\ last'.text \in Candidates /\ last'.conf = SimConfidence
                 /\ transcript' = last'.text
                 /\ ~isListening' /\ ~isRecordingRef'
                 /\ timeoutRef' = 0 /\ NoTimer']_vars

\* C18: toggle does what stopListening does whenever a session is active
\* and what startListening does whenever none is, whether or not the
\* render that made the toggle has seen the listening state.
C18_ToggleFollowsActivity ==
    [][Toggle => IF isRecordingRef THEN StopCall ELSE StartCall]_vars

\* C19: speak returns normally whether or not the synthesis fails; when it
\* fails onError is invoked with the synthesis-failure message, when it
\* succeeds with nothing; either way isListening, the recording flag, the
\* transcript, the handles, the sessions and the suspended calls are what
\* they were.
C19_SpeakContained ==
    [][Speak =>
          /\ last'.ret = "speak" /\ last'.err \in {"", ErrSpeak}
          /\ last'.res = 0
          /\ UNCHANGED <<isListening, isRecordingRef, transcript,
                         hasPermission, speechMethod, timeoutRef,
                         recognitionRef, mediaRecorderRef,
                         expoSpeechRecognitionRef, expoListeners, sessions,
                         calls, delivered>>]_vars

\* speak has just failed while a session was listening: the error was
\* reported and the session is still listening.
C19_Witness ==
    /\ last.ret = "speak" /\ last.err = ErrSpeak
    /\ isListening /\ isRecordingRef /\ Live(sessions) # {}

\* The chat store against the transcripts handed in: every transcript has
\* its user message, and its reply either as one AI message or as one
\* pending timer; the k-th AI message answers the k-th user message and
\* comes after it.
Ledger ==
    /\ Len(AIs) + Len(replies) = Len(Users)
    /\ \A k \in 1..Len(AIs) :
          AIs[k].text = generateAIResponse(Users[k].text)
    /\ \A k \in 1..Len(replies) : replies[k] = Users[Len(AIs) + k].text
    /\ \A n \in 1..Len(messages) :
          Len(SelectSeq(SubSeq(messages, 1, n), LAMBDA m : m.sender = "ai"))
              <= Len(SelectSeq(SubSeq(messages, 1, n),
                               LAMBDA m : m.sender = "user"))

\* C20: a transcript handed to the screen appends exactly one user message
\* with its text at once and no AI message; its one AI message is appended
\* later, by the reply timer, which always fires; an AI message never
\* comes before the user message of its turn.
C20_OneUserThenOneAI ==
    /\ []Ledger
    /\ [][/\ \A t \in Heard :
                (HandleVoiceResult(t)
                    => /\ messages' = Append(messages, createMessage(t, "user"))
                       /\ Len(replies') = Len(replies) + 1)
             /\ (ReplyTimer
                    => /\ Users' = Users
                       /\ Len(AIs') = Len(AIs) + 1
                       /\ messages'[Len(messages')].sender = "ai")]_vars
    /\ <>[](replies = <<>>)

\* Two transcripts were handed in before the first reply was due, and both
\* replies have been appended: two user messages, then their two replies.
C20_Witness ==
    /\ Len(messages) = 4 /\ replies = <<>>
    /\ messages[1].sender = "user" /\ messages[2].sender = "user"
    /\ messages[3] = createMessage(generateAIResponse(messages[1].text), "ai")
    /\ messages[4] = createMessage(generateAIResponse(messages[2].text), "ai")

\* C29: every pending timer of the simulation is the one timeoutRef holds,
\* so that one stopListening clears every pending emission.
C29_TimerHandleHoldsPending ==
    \A s \in DOMAIN sessions :
        (sessions[s].kind = "sim" /\ sessions[s].st = "pending")
            => timeoutRef = s

\* C26: a startListening made while the permission it sees is still
\* unknown reports no error and runs the initialization again; the call
\* itself starts nothing: the flags, the sessions and the handles are
\* what they were.
C26_UnknownPermissionReinitializes ==
    [][(StartListening /\ seen.p = "null")
          => /\ last'.err = ""
             /\ \E c \in BagToSet(calls') :
                   c.op = "init" /\ CopiesIn(c, calls') > CopiesIn(c, calls)
             /\ UNCHANGED <<isListening, isRecordingRef, sessions, timeoutRef,
                            recognitionRef>>]_vars

\* The sessions started since the last stopListening took effect: live and
\* not marked by a stop.
StartedSince == {s \in Live(sessions) : ~sessions[s].stopped}

\* C30: when a stopListening resumes after its await, the sessions started
\* while it was suspended are left alone: their provider is not stopped,
\* and the handles and the flags that are theirs are not cleared.
C30_ResumedStopSparesNewSession ==
    [][\A i \in BagToSet(calls) :
          (ResumeStop(i) /\ StartedSince # {})
              => /\ \A s \in StartedSince : sessions'[s] = sessions[s]
                 /\ UNCHANGED <<isListening, isRecordingRef, recognitionRef,
                                timeoutRef>>]_vars

\* C25: the listeners of a session are unsubscribed when it is stopped or
\* has ended, so that however many sessions came before, one result event
\* of a recognizer makes at most one onResult call (here: the first
\* onResult calls of a hook, where one and many can be told apart).
C25_OneCallbackPerEvent ==
    [][\A s \in DOMAIN sessions :
          ((ExpoResultEvent(s) \/ WebResultEvent(s)) /\ delivered = "none")
              => delivered' # "many"]_vars

\* The setupExpoSpeechRecognitionEvents calls waiting at their import.
SetupsPending(cs) ==
    {c \in BagToSet(cs) : c.op = "setup"}

\* C24: an initialization that runs when the permission and the provider
\* are already determined changes neither and subscribes to nothing more:
\* no further listeners are registered or about to be.
C24_InitializeIdempotent ==
    [][\A i \in BagToSet(calls) :
          (Initialize(i) /\ hasPermission # "null")
              => /\ UNCHANGED <<hasPermission, speechMethod, expoListeners>>
                 /\ \A c \in SetupsPending(calls') :
                       CopiesIn(c, calls') <= CopiesIn(c, calls)]_vars

\* The cleanup's stopListening has returned.
CleanupDone == ~mounted /\ \A c \in BagToSet(calls) : c.op # "stop"

\* C23: after the teardown no session invokes onResult or onError (the
\* permission request of the mount effect is no session), and once the
\* cleanup's stopListening has returned no recognition and no timer is
\* live.
C23_TeardownSilences ==
    /\ (~mounted /\ last.ret # "initialize")
           => (last.res = 0 /\ last.err = "")
    /\ CleanupDone => Live(sessions) = {}

\* The screen shows that the microphone permission is required: in its
\* status line (line 75), or in the warning the first screen renders while
\* hasPermission is false (lines 140-144).
permissionShown ==
    \/ screen.status = StatusDenied
    \/ screen.v = "s1" /\ seen.p = "false"

\* C21: a press of the microphone button while the hook is not listening
\* and the permission is denied (false) only shows the permission message:
\* toggle is not called, no session is created, and the recording flag and
\* the chat store stay as they were.
DeniedTap ==
    /\ MicPress
    /\ ~isListening /\ ~seenListening
    /\ hasPermission = "false" /\ seen.p = "false"

C21_DeniedTapOnlyWarns ==
    [][DeniedTap =>
          /\ permissionShown'
          /\ ncalls' = ncalls
          /\ sessions' = sessions
          /\ calls' = calls
          /\ screen'.isRecording = screen.isRecording
          /\ messages' = messages
          /\ replies' = replies]_vars

\* A press that reaches handleMicPress and that it does not return from
\* early.
OpenTap ==
    MicPress /\ seen.p # "false" /\ ~micBlocked(Sc, seenListening, seen.p)

\* The hook is listening or on its way there (a startListening is
\* suspended, a recognizer was started and has not reported yet), and it
\* is not being stopped.
Engaged(l, cs, ss) ==
    /\ \A c \in BagToSet(cs) : c.op # "stop"
    /\ \/ l
       \/ \E c \in BagToSet(cs) : c.op = "start"
       \/ \E s \in DOMAIN ss : ss[s].st = "starting"

\* C22: a press of the microphone button that the permission does not
\* block calls toggle exactly once and leaves the store's recording flag
\* equal to the state the hook is left in: true where the press started
\* listening, false where it stopped it.
C22_TapSetsFlagToResult ==
    [][OpenTap =>
          /\ ncalls' = ncalls + 1
          /\ screen'.isRecording = Engaged(isListening', calls', sessions')]_vars

\* What a transcript leaves in the chat store, the navigation and the
\* reply timers.
Store(sc) == <<sc.messages, sc.route, sc.replies>>

\* A step in which the hook called onResult once, with text t: one user
\* message more, and not by a tap.
ResultStep(t) ==
    /\ last'.res # 0 /\ last'.text = t /\ last'.ret # "suggestion"
    /\ Len(Users') = Len(Users) + 1

\* C27: a tap on a suggestion leaves the chat store, the route and the
\* scheduled reply as the hook's onResult with the same text leaves them,
\* and it changes nothing of the hook: no session is started or stopped.
C27_SuggestionActsAsResult ==
    [][\A t \in suggestions("s1") \cup suggestions("s2") \cup mockTranscripts
                    \cup {"hello"} :
          /\ SuggestionTap(t) =>
                /\ Store(Sc') = Store(handleVoiceResult(Sc, t))
                /\ UNCHANGED <<sessions, calls, isListening, isRecordingRef,
                               timeoutRef, recognitionRef, mediaRecorderRef,
                               expoSpeechRecognitionRef, expoListeners,
                               transcript, hasPermission, speechMethod,
                               delivered>>
          /\ ResultStep(t) => Store(Sc') = Store(suggestionPress(Sc, t))]_vars

\* A suggestion was tapped while the hook was listening.
C27_Witness ==
    /\ last.ret = "suggestion"
    /\ isListening /\ Live(sessions) # {}
    /\ replies # <<>>

\* The hook is idle and none of its handlers is suspended.
Idle ==
    /\ ~isListening /\ ~isRecordingRef
    /\ calls = EmptyBag
    /\ Live(sessions) = {}

\* C28: whenever the hook is idle and no handler is running, the store's
\* recording flag is false: once a session has ended (by its result, by an
\* error or by a stop) the flag equals isListening.
C28_FlagFollowsListening == Idle => ~screen.isRecording

\* C31: whatever transcripts and suggestion taps reach the screen, several
\* within one reply delay included, the chat store never holds more AI
\* messages than user messages, and the k-th AI message is the reply to
\* the k-th user message.
C31_RepliesInOrder ==
    /\ Len(AIs) <= Len(Users)
    /\ \A k \in 1..Len(AIs) :
          /\ k <= Len(Users)
          /\ AIs[k].text = generateAIResponse(Users[k].text)

\* Two different transcripts arrived before the first reply was due, a
\* third one after it: two replies are in the store, in the order of their
\* transcripts, and the third is pending.
C31_Witness ==
    /\ Len(Users) = 3 /\ Len(AIs) = 2 /\ Len(replies) = 1
    /\ messages[1].sender = "user" /\ messages[2].sender = "user"
    /\ messages[1].text # messages[2].text
    /\ messages[3] = createMessage(generateAIResponse(messages[1].text), "ai")
    /\ AIs[2].text = generateAIResponse(messages[2].text)

\* C32: after every call of the hook and every callback of a provider or a
\* timer, the published isListening equals isRecordingRef.current.
C32_StateMatchesRef == isListening = isRecordingRef

\* A session delivered its result and the hook went on listening: state
\* and ref are both set.
C32_Witness ==
    /\ isListening /\ isRecordingRef
    /\ last.res # 0 /\ Live(sessions) # {}

\* C33: in simulation with continuous = true, the timer of a started
\* session that no stop followed delivers one result, for that session, and
\* the hook goes on listening with no timer left, so that no further
\* result comes without a new startListening; every result comes this way;
\* and listening ends only in a call of the hook's user.
C33_ContinuousSimulationOneResult ==
    [][continuous =>
          /\ \A s \in DOMAIN sessions :
                (Unstopped(s) /\ TimerFire(s))
                    => /\ last'.res = s /\ delivered' = Inc(delivered)
                       /\ isListening' /\ isRecordingRef'
                       /\ NoTimer'
          /\ last'.res # 0
                => \E s \in DOMAIN sessions : Unstopped(s) /\ TimerFire(s)
          /\ (isListening /\ ~isListening') => ncalls' = ncalls + 1]_vars

====
